---------------------------- MODULE Spec2Model ----------------------------
(***************************************************************************)
(* Model of package shamir (secretsharing.go): Shamir secret sharing over  *)
(* a finite field and secret sharing over the integers, reconstruction by  *)
(* Lagrange interpolation over the rationals, and the share-wise addition  *)
(* and multiplication.                                                     *)
(*                                                                         *)
(* A *big.Int that may be nil is the empty tuple (nil) or a one-element    *)
(* tuple <<v>>.  A big.Rat is a pair <<num, den>> in lowest terms with     *)
(* den > 0, as math/big keeps it.  A call returns a record whose err is    *)
(* "nil", one of the four package errors, or "panic" when the Go runtime   *)
(* aborts the call (big.NewRat with a zero denominator, a nil *big.Int     *)
(* operand, a division by zero, rand.Int with a bound <= 0).               *)
(***************************************************************************)
EXTENDS Integers, Sequences, FiniteSets

----------------------------------------------------------------------------
(* Bounds of the model *)

\* largest number of shares of one sharing (nShares)
MaxShares == 3
\* largest polynomial degree of a sharing
MaxDegree == 2
\* secrets, and the bound on them handed to ShareIntegers, are drawn from
\* -MaxSecret .. MaxSecret and 0 .. MaxSecret
MaxSecret == 1
\* field sizes are the primes up to MaxFieldSize
MaxFieldSize == 5
\* statSecParam is drawn from 0 .. MaxStatSec
MaxStatSec == 1
\* the random coefficients of ShareIntegers are drawn from
\* [0, min(coefficientUpperBound, MaxCoef))
MaxCoef == 3
\* when several secrets are shared, every coefficient is drawn from
\* [0, min(bound, MaxHomCoef))
MaxHomCoef == 2
\* largest number of secrets shared in one run
MaxFactors == 2
\* largest length of an arbitrary argument list
MaxArgs == 3

----------------------------------------------------------------------------
(* Integers and rationals, as math/big computes them *)

Nil == << >>

Some(v) == << v >>

Val(o) == o[1]

Abs(a) == IF a < 0 THEN -a ELSE a

Min(a, b) == IF a < b THEN a ELSE b

RECURSIVE Pow(_, _)
Pow(b, e) == IF e = 0 THEN 1 ELSE b * Pow(b, e - 1)

RECURSIVE Gcd(_, _)
Gcd(a, b) == IF b = 0 THEN a ELSE Gcd(b, a % b)

\* big.Int.Mod: Euclidean modulus, 0 <= result < |m|  (m # 0)
EMod(a, m) == a % Abs(m)

\* big.Int.Div: Euclidean division, a = q*m + EMod(a, m)  (m # 0)
EDiv(a, m) == IF m > 0 THEN (a - EMod(a, m)) \div m
                       ELSE -((a - EMod(a, m)) \div (-m))

\* big.Int.MulRange(1, n)
RECURSIVE factorial(_)
factorial(n) == IF n <= 1 THEN 1 ELSE n * factorial(n - 1)

\* big.Int.ModInverse(g, n): nil when g and n are not relatively prime,
\* otherwise the inverse of g in [0, |n|)
ModInverse(g, n) ==
    IF n = 0
    THEN (IF Abs(g) = 1 THEN Some(g) ELSE Nil)
    ELSE LET m == Abs(n)
             r == g % m
         IN  IF Gcd(m, r) # 1 THEN Nil
             ELSE IF m = 1 THEN Some(0)
             ELSE Some(CHOOSE x \in 1 .. (m - 1) : (r * x) % m = 1)

\* normal form of the fraction a/b, b # 0
RatNorm(a, b) ==
    LET g == Gcd(Abs(a), Abs(b))
        s == IF b < 0 THEN -1 ELSE 1
    IN  << (s * a) \div g, (s * b) \div g >>

\* big.NewRat(a, b), b # 0
NewRat(a, b) == RatNorm(a, b)

\* big.Rat.Mul
RatMul(p, q) ==
    LET g1 == Gcd(Abs(p[1]), q[2])
        g2 == Gcd(Abs(q[1]), p[2])
    IN  << (p[1] \div g1) * (q[1] \div g2), (p[2] \div g2) * (q[2] \div g1) >>

\* big.Rat.Add
RatAdd(p, q) ==
    LET g == Gcd(p[2], q[2])
        l == (p[2] \div g) * q[2]
    IN  RatNorm(p[1] * (l \div p[2]) + q[1] * (l \div q[2]), l)

\* big.Rat.IsInt
IsInt(p) == p[2] = 1

----------------------------------------------------------------------------
(* Shares and results *)

ErrorNoShares == "ErrorNoShares"

ErrorTooFewShares == "ErrorTooFewShares"

ErrorIncompatibleShares == "ErrorIncompatibleShares"

ErrorFractionalSecret == "ErrorFractionalSecret"

\* a call that the runtime aborted
Panic == "panic"

Errors == {ErrorNoShares, ErrorTooFewShares, ErrorIncompatibleShares,
           ErrorFractionalSecret}

Share(fieldSize, factor, degree, x, y) ==
    [FieldSize |-> fieldSize, Factor |-> factor, Degree |-> degree,
     X |-> x, Y |-> y]

\* the zero value Share{}
EmptyShare == Share(Nil, Nil, 0, 0, Nil)

\* (secret, nil), (nil, err) and an aborted call of ShareCombine
Secret(v) == [val |-> Some(v), err |-> "nil"]

Failure(e) == [val |-> Nil, err |-> e]

\* (share, nil), (Share{}, err) of ShareAdd and ShareMul
Ok(s) == [share |-> s, err |-> "nil"]

Fail(e) == [share |-> EmptyShare, err |-> e]

equalOrBothNil(a, b) ==
    IF a = Nil /\ b = Nil THEN TRUE
    ELSE IF a = Nil \/ b = Nil THEN FALSE
    ELSE Val(a) = Val(b)

----------------------------------------------------------------------------
(* Share generation; coefficients is the outcome of the rand.Int draws *)

\* f(x) = secret + sum(j) coefficients[j] x^j, the inner loop over j
RECURSIVE Poly(_, _, _, _)
Poly(secret, coefficients, x, j) ==
    IF j > Len(coefficients) THEN secret
    ELSE Poly(secret, coefficients, x, j + 1) + Pow(x, j) * coefficients[j]

\* ShareFiniteField with the polynomial evaluated at the loop index i instead
\* of i+1 (ThresholdSecrecy must tell the two apart)
ShareFiniteFieldAtIndex(secret, fieldSize, degree, nShares, coefficients) ==
    [i \in 1 .. nShares |->
        Share(Some(fieldSize), Nil, degree, i,
              Some(EMod(Poly(secret, coefficients, i - 1, 1), fieldSize)))]

ShareFiniteField(secret, fieldSize, degree, nShares, coefficients) ==
    [i \in 1 .. nShares |->
        Share(Some(fieldSize), Nil, degree, i,
              Some(EMod(Poly(secret, coefficients, i, 1), fieldSize)))]

\* 2^statSecParam * nShares^2 * secretUpperBound
coefficientUpperBound(secretUpperBound, statSecParam, nShares) ==
    Pow(2, statSecParam) * (nShares * nShares) * secretUpperBound

\* ShareIntegers without the multiplication of the secret by n!
\* (RoundTripIntegers must tell the two apart)
ShareIntegersUnscaled(secret, secretUpperBound, statSecParam, degree, nShares, coefficients) ==
    LET nFactorial == factorial(nShares)
    IN  [i \in 1 .. nShares |->
            Share(Nil, Some(nFactorial), degree, i,
                  Some(Poly(secret, coefficients, i, 1)))]

ShareIntegers(secret, secretUpperBound, statSecParam, degree, nShares, coefficients) ==
    LET nFactorial == factorial(nShares)
    IN  [i \in 1 .. nShares |->
            Share(Nil, Some(nFactorial), degree, i,
                  Some(Poly(secret * nFactorial, coefficients, i, 1)))]

----------------------------------------------------------------------------
(* ShareCombine *)

\* the compatibility test of ShareCombine's first loop
combineMismatch(a, b) ==
    ~equalOrBothNil(a.FieldSize, b.FieldSize) \/ a.Degree # b.Degree

\* LagrangeTerm with the difference taken as X_i - X_j
\* (TamperDetection must tell the two apart)
RECURSIVE LagrangeTermSwapped(_, _, _, _)
LagrangeTermSwapped(shares, i, j, term) ==
    IF j > shares[1].Degree + 1 THEN term
    ELSE IF i = j THEN LagrangeTermSwapped(shares, i, j + 1, term)
    ELSE LagrangeTermSwapped(shares, i, j + 1,
             RatMul(term, NewRat(shares[j].X, shares[i].X - shares[j].X)))

\* the inner loop over j: term = Y_i * prod(j # i) X_j / (X_j - X_i),
\* over the first Degree+1 shares
RECURSIVE LagrangeTerm(_, _, _, _)
LagrangeTerm(shares, i, j, term) ==
    IF j > shares[1].Degree + 1 THEN term
    ELSE IF i = j THEN LagrangeTerm(shares, i, j + 1, term)
    ELSE LagrangeTerm(shares, i, j + 1,
             RatMul(term, NewRat(shares[j].X, shares[j].X - shares[i].X)))

\* the outer loop over i: secret = sum of the terms
RECURSIVE Interpolate(_, _, _)
Interpolate(shares, i, secret) ==
    IF i > shares[1].Degree + 1 THEN secret
    ELSE Interpolate(shares, i + 1,
             RatAdd(secret, LagrangeTerm(shares, i, 1, << Val(shares[i].Y), 1 >>)))

\* the interpolation aborts: term.SetInt(nil), or big.NewRat(x, 0)
InterpolatePanics(shares) ==
    LET used == 1 .. (shares[1].Degree + 1)
    IN  \/ \E i \in used : shares[i].Y = Nil
        \/ \E i \in used : \E j \in used : i # j /\ shares[j].X = shares[i].X

\* CombineFiniteField that reduces the numerator and forgets the denominator
\* (RoundTripFiniteField must tell the two apart)
CombineFiniteFieldNoInverse(secret, fieldSize) ==
    IF fieldSize = 0 THEN Failure(Panic)
    ELSE Secret(EMod(secret[1], fieldSize))

\* the finite-field branch: Mod(Num * ModInverse(Denom, FieldSize), FieldSize)
CombineFiniteField(secret, fieldSize) ==
    LET inverse == ModInverse(secret[2], fieldSize)
    IN  IF inverse = Nil \/ fieldSize = 0 THEN Failure(Panic)
        ELSE Secret(EMod(secret[1] * Val(inverse), fieldSize))

\* the integer branch: IsInt, then Div(Num, Factor)
CombineIntegers(secret, factor) ==
    IF ~IsInt(secret) THEN Failure(ErrorFractionalSecret)
    ELSE IF factor = Nil THEN Failure(Panic)
    ELSE IF Val(factor) = 0 THEN Failure(Panic)
    ELSE Secret(EDiv(secret[1], Val(factor)))

\* ShareCombine with len(shares) < Degree as the too-few test; the
\* interpolation then indexes past the end of a list of `Degree` shares
\* (ThresholdBoundary must tell the two apart)
ShareCombineOffByOne(shares) ==
    IF Len(shares) = 0 THEN Failure(ErrorNoShares)
    ELSE IF Len(shares) < shares[1].Degree THEN Failure(ErrorTooFewShares)
    ELSE IF \E i \in 2 .. Len(shares) : combineMismatch(shares[1], shares[i])
         THEN Failure(ErrorIncompatibleShares)
    ELSE IF Len(shares) <= shares[1].Degree THEN Failure(Panic)
    ELSE IF InterpolatePanics(shares) THEN Failure(Panic)
    ELSE LET secret == Interpolate(shares, 1, << 0, 1 >>)
         IN  IF shares[1].FieldSize # Nil
             THEN CombineFiniteField(secret, Val(shares[1].FieldSize))
             ELSE CombineIntegers(secret, shares[1].Factor)

\* ShareCombine that tests the compatibility of the Degree+1 shares it uses
\* only (MismatchDetection must tell the two apart)
ShareCombineChecksUsed(shares) ==
    IF Len(shares) = 0 THEN Failure(ErrorNoShares)
    ELSE IF Len(shares) <= shares[1].Degree THEN Failure(ErrorTooFewShares)
    ELSE IF \E i \in 2 .. (shares[1].Degree + 1) : combineMismatch(shares[1], shares[i])
         THEN Failure(ErrorIncompatibleShares)
    ELSE IF InterpolatePanics(shares) THEN Failure(Panic)
    ELSE LET secret == Interpolate(shares, 1, << 0, 1 >>)
         IN  IF shares[1].FieldSize # Nil
             THEN CombineFiniteField(secret, Val(shares[1].FieldSize))
             ELSE CombineIntegers(secret, shares[1].Factor)

ShareCombine(shares) ==
    IF Len(shares) = 0 THEN Failure(ErrorNoShares)
    ELSE IF Len(shares) <= shares[1].Degree THEN Failure(ErrorTooFewShares)
    ELSE IF \E i \in 2 .. Len(shares) : combineMismatch(shares[1], shares[i])
         THEN Failure(ErrorIncompatibleShares)
    ELSE IF InterpolatePanics(shares) THEN Failure(Panic)
    ELSE LET secret == Interpolate(shares, 1, << 0, 1 >>)
         IN  IF shares[1].FieldSize # Nil
             THEN CombineFiniteField(secret, Val(shares[1].FieldSize))
             ELSE CombineIntegers(secret, shares[1].Factor)

----------------------------------------------------------------------------
(* ShareAdd and ShareMul *)

\* the compatibility test without the comparison of X
\* (OperandValidation must tell the two apart)
operandMismatchIgnoresX(a, b) ==
    \/ ~equalOrBothNil(a.FieldSize, b.FieldSize)
    \/ a.Degree # b.Degree

\* the compatibility test of the loops of ShareAdd and ShareMul
operandMismatch(a, b) ==
    \/ ~equalOrBothNil(a.FieldSize, b.FieldSize)
    \/ a.Degree # b.Degree
    \/ a.X # b.X

\* sum.Y after Add or Mul: reduced when the sum has a field size
Reduce(y, fieldSize) == IF fieldSize = Nil THEN y ELSE EMod(y, Val(fieldSize))

\* the loop of ShareAdd from index i on, sum being the accumulated share
RECURSIVE AddLoop(_, _, _)
AddLoop(shares, i, sum) ==
    IF i > Len(shares) THEN Ok(sum)
    ELSE IF operandMismatch(shares[1], shares[i]) THEN Fail(ErrorIncompatibleShares)
    ELSE IF shares[i].Y = Nil \/ sum.FieldSize = Some(0) THEN Fail(Panic)
    ELSE AddLoop(shares, i + 1,
             [sum EXCEPT !.Y = Some(Reduce(Val(sum.Y) + Val(shares[i].Y), sum.FieldSize))])

\* ShareAdd whose loop stops one share early
\* (AdditiveHomomorphism must tell the two apart)
ShareAddStopsEarly(shares) ==
    IF Len(shares) = 0 THEN Fail(ErrorNoShares)
    ELSE IF shares[1].Y = Nil THEN Fail(Panic)
    ELSE AddLoop(SubSeq(shares, 1, Len(shares) - 1), 2, shares[1])

ShareAdd(shares) ==
    IF Len(shares) = 0 THEN Fail(ErrorNoShares)
    ELSE IF shares[1].Y = Nil THEN Fail(Panic)
    ELSE AddLoop(shares, 2, shares[1])

\* the loop of ShareMul without sum.Degree += shares[i].Degree
\* (MultiplicativeHomomorphism must tell the two apart)
RECURSIVE MulLoopKeepsDegree(_, _, _)
MulLoopKeepsDegree(shares, i, sum) ==
    IF i > Len(shares) THEN Ok(sum)
    ELSE IF operandMismatch(shares[1], shares[i]) THEN Fail(ErrorIncompatibleShares)
    ELSE IF shares[i].Y = Nil \/ sum.FieldSize = Some(0) THEN Fail(Panic)
    ELSE IF sum.Factor # Nil /\ shares[i].Factor = Nil THEN Fail(Panic)
    ELSE MulLoopKeepsDegree(shares, i + 1,
             [sum EXCEPT
                 !.Y = Some(Reduce(Val(sum.Y) * Val(shares[i].Y), sum.FieldSize)),
                 !.Factor = IF sum.Factor = Nil THEN Nil
                            ELSE Some(Val(sum.Factor) * Val(shares[i].Factor))])

\* the loop of ShareMul from index i on
RECURSIVE MulLoop(_, _, _)
MulLoop(shares, i, sum) ==
    IF i > Len(shares) THEN Ok(sum)
    ELSE IF operandMismatch(shares[1], shares[i]) THEN Fail(ErrorIncompatibleShares)
    ELSE IF shares[i].Y = Nil \/ sum.FieldSize = Some(0) THEN Fail(Panic)
    ELSE IF sum.Factor # Nil /\ shares[i].Factor = Nil THEN Fail(Panic)
    ELSE MulLoop(shares, i + 1,
             [sum EXCEPT
                 !.Y = Some(Reduce(Val(sum.Y) * Val(shares[i].Y), sum.FieldSize)),
                 !.Degree = sum.Degree + shares[i].Degree,
                 !.Factor = IF sum.Factor = Nil THEN Nil
                            ELSE Some(Val(sum.Factor) * Val(shares[i].Factor))])

ShareMul(shares) ==
    IF Len(shares) = 0 THEN Fail(ErrorNoShares)
    ELSE IF shares[1].Y = Nil THEN Fail(Panic)
    ELSE MulLoop(shares, 2, shares[1])

----------------------------------------------------------------------------
(* The callers: state *)

VARIABLES
    pc,        \* where the caller is
    params,    \* the parameters of the sharing(s) of this run
    secrets,   \* the secrets shared so far
    sharings,  \* the share lists the generators returned, one per secret
    results,   \* what ShareAdd / ShareMul returned, one per participant
    work,      \* the share list the caller reconstructs from
    args,      \* the argument of the last call of ShareCombine/ShareAdd/ShareMul
    out        \* what that call returned

vars == << pc, params, secrets, sharings, results, work, args, out >>

NoResult == [val |-> Nil, err |-> "none"]

IsPrime(n) == n >= 2 /\ \A k \in 2 .. (n - 1) : n % k # 0

FieldSizes == {n \in 2 .. MaxFieldSize : IsPrime(n)}

Secrets == (-MaxSecret) .. MaxSecret

Degrees == 0 .. MaxDegree

ShareCounts == 1 .. MaxShares

FieldParams ==
    [domain : {"field"}, fieldSize : FieldSizes, secretUpperBound : {0},
     statSecParam : {0}, degree : Degrees, nShares : ShareCounts]

IntegerParams ==
    [domain : {"integers"}, fieldSize : {0}, secretUpperBound : 0 .. MaxSecret,
     statSecParam : 0 .. MaxStatSec, degree : Degrees, nShares : ShareCounts]

\* the outcomes of `degree` draws of rand.Int(rand.Reader, bound), capped
Coefficients(bound, degree, cap) == [1 .. degree -> 0 .. (Min(bound, cap) - 1)]

\* the sub-list of s at the positions I, in order
RECURSIVE Pick(_, _, _)
Pick(s, I, i) ==
    IF i > Len(s) THEN << >>
    ELSE IF i \in I THEN << s[i] >> \o Pick(s, I, i + 1)
    ELSE Pick(s, I, i + 1)

\* the sets of `size` positions of a list of n shares
Positions(n, size) == {I \in SUBSET (1 .. n) : Cardinality(I) = size}

\* X values no generator gives a share of n
OutOfRangeX(n) == {-1, 0, n + 1}

----------------------------------------------------------------------------
(* One secret: share, possibly corrupt one X, reconstruct *)

Init ==
    /\ pc = "start"
    /\ params \in FieldParams \cup IntegerParams
    /\ secrets = << >>
    /\ sharings = << >>
    /\ results = << >>
    /\ work = << >>
    /\ args = << >>
    /\ out = NoResult

CallShareFiniteField ==
    /\ pc = "start"
    /\ params.domain = "field"
    /\ \E secret \in Secrets :
       \E coefficients \in Coefficients(params.fieldSize, params.degree, params.fieldSize) :
          LET shares == ShareFiniteField(secret, params.fieldSize, params.degree,
                                         params.nShares, coefficients)
          IN  /\ secrets' = << secret >>
              /\ sharings' = << shares >>
              /\ work' = shares
    /\ pc' = "shared"
    /\ UNCHANGED << params, results, args, out >>

\* rand.Int panics when its bound is <= 0
CallShareIntegers ==
    /\ pc = "start"
    /\ params.domain = "integers"
    /\ LET bound == coefficientUpperBound(params.secretUpperBound,
                                          params.statSecParam, params.nShares)
       IN  IF params.degree >= 1 /\ bound <= 0
           THEN /\ pc' = "panic"
                /\ UNCHANGED << secrets, sharings, work >>
           ELSE /\ \E secret \in Secrets :
                   \E coefficients \in Coefficients(bound, params.degree, MaxCoef) :
                      LET shares == ShareIntegers(secret, params.secretUpperBound,
                                        params.statSecParam, params.degree,
                                        params.nShares, coefficients)
                      IN  /\ secrets' = << secret >>
                          /\ sharings' = << shares >>
                          /\ work' = shares
                /\ pc' = "shared"
    /\ UNCHANGED << params, results, args, out >>

\* shares3[0].X = 500 of TestErrors: the X of one of the shares that the
\* interpolation uses is overwritten
Tamper ==
    /\ pc = "shared"
    /\ \E i \in 1 .. Min(params.degree + 1, params.nShares) :
       \E x \in OutOfRangeX(params.nShares) :
          work' = [work EXCEPT ![i].X = x]
    /\ pc' = "tampered"
    /\ UNCHANGED << params, secrets, sharings, results, args, out >>

\* ShareCombine on `degree` or `degree+1` of the shares as generated, or on
\* the whole list after one X was overwritten
CallShareCombine ==
    /\ pc \in {"shared", "tampered"}
    /\ \E I \in (IF pc = "shared"
                 THEN Positions(Len(work), work[1].Degree)
                      \cup Positions(Len(work), work[1].Degree + 1)
                 ELSE {1 .. Len(work)}) :
          /\ args' = Pick(work, I, 1)
          /\ out' = ShareCombine(args')
    /\ pc' = "combined"
    /\ UNCHANGED << params, secrets, sharings, results, work >>

Next ==
    \/ CallShareFiniteField
    \/ CallShareIntegers
    \/ Tamper
    \/ CallShareCombine

Spec == Init /\ [][Next]_vars

----------------------------------------------------------------------------
(* Properties of one sharing *)

\* ShareCombine has returned, on shares exactly as the generator gave them
CombinedAsGenerated == pc = "combined" /\ work = sharings[1]

\* ShareCombine has returned, on a list with one X overwritten
CombinedTampered == pc = "combined" /\ work # sharings[1]

\* C1 as stated: ShareCombine on any degree+1 shares of
\* ShareFiniteField(s, p, d, n), p any prime and n > d, returns s mod p
\* without error, whatever the coefficients.
RoundTripAnyPrime ==
    (/\ CombinedAsGenerated
     /\ params.domain = "field"
     /\ params.nShares > params.degree
     /\ Len(args) = params.degree + 1)
    => out = Secret(EMod(secrets[1], params.fieldSize))

\* C1 amended: the same for a prime p >= n, for which the positions 1..n
\* are distinct modulo p.
RoundTripFiniteField ==
    (/\ CombinedAsGenerated
     /\ params.domain = "field"
     /\ params.fieldSize >= params.nShares
     /\ params.nShares > params.degree
     /\ Len(args) = params.degree + 1)
    => out = Secret(EMod(secrets[1], params.fieldSize))

\* a negative secret shared with degree >= 1 over a field with p = n was
\* reconstructed from a set of shares that is not the first degree+1
RoundTripFiniteFieldWitness ==
    /\ CombinedAsGenerated
    /\ params.domain = "field"
    /\ params.fieldSize = params.nShares
    /\ params.degree >= 1
    /\ Len(args) = params.degree + 1
    /\ args[1].X > 1
    /\ secrets[1] < 0
    /\ out = Secret(params.fieldSize + secrets[1])

\* C2: ShareCombine on any degree+1 shares of ShareIntegers(s, B, sigma, d, n),
\* |s| <= B and n > d, returns exactly s without error, whatever the
\* coefficients.
RoundTripIntegers ==
    (/\ CombinedAsGenerated
     /\ params.domain = "integers"
     /\ Abs(secrets[1]) <= params.secretUpperBound
     /\ params.nShares > params.degree
     /\ Len(args) = params.degree + 1)
    => out = Secret(secrets[1])

\* a negative secret shared with degree >= 1 and a non-zero coefficient was
\* reconstructed from a set of shares that is not the first degree+1
RoundTripIntegersWitness ==
    /\ CombinedAsGenerated
    /\ params.domain = "integers"
    /\ params.degree >= 1
    /\ Len(args) = params.degree + 1
    /\ args[1].X > 1
    /\ args[1].Y # args[2].Y
    /\ secrets[1] < 0
    /\ Abs(secrets[1]) <= params.secretUpperBound
    /\ out = Secret(secrets[1])

\* C6 as stated: for every degree >= 0, ShareCombine on exactly `degree` of the
\* shares of one sharing fails with ErrorTooFewShares, and on exactly
\* degree+1 of them it succeeds.
ThresholdAnyDegree ==
    CombinedAsGenerated =>
        /\ Len(args) = params.degree => out = Failure(ErrorTooFewShares)
        /\ Len(args) = params.degree + 1 => (out.err = "nil" /\ out.val # Nil)

\* C6 amended: with exactly `degree` shares ShareCombine fails, with
\* ErrorTooFewShares when degree >= 1 and with ErrorNoShares when degree = 0
\* (the list is then empty); with exactly degree+1 shares it succeeds.
ThresholdBoundary ==
    CombinedAsGenerated =>
        /\ (Len(args) = params.degree /\ params.degree >= 1)
              => out = Failure(ErrorTooFewShares)
        /\ (Len(args) = params.degree /\ params.degree = 0)
              => out = Failure(ErrorNoShares)
        /\ Len(args) = params.degree + 1 => (out.err = "nil" /\ out.val # Nil)

\* ShareCombine was refused exactly MaxDegree shares of a sharing
ThresholdBoundaryWitness ==
    /\ CombinedAsGenerated
    /\ params.degree = MaxDegree
    /\ Len(args) = params.degree
    /\ out = Failure(ErrorTooFewShares)

\* the case C9 is about: integer shares of degree >= 1, n > d, one X of the
\* first d+1 overwritten by a value outside 1..n, then ShareCombine
TamperedIntegers ==
    /\ CombinedTampered
    /\ params.domain = "integers"
    /\ params.degree >= 1
    /\ params.nShares > params.degree

ConstantSharing == \A i \in 1 .. Len(work) : work[i].Y = work[1].Y

----------------------------------------------------------------------------
(* What the holders of at most `degree` shares of a finite-field sharing see *)

InitSecrecy ==
    /\ pc = "start"
    /\ params \in FieldParams
    /\ secrets = << >>
    /\ sharings = << >>
    /\ results = << >>
    /\ work = << >>
    /\ args = << >>
    /\ out = NoResult

\* a secret of [0, p) is shared and the shares at up to `degree` positions
\* are handed to their holders
ObserveShares ==
    /\ pc = "start"
    /\ \E secret \in 0 .. (params.fieldSize - 1) :
       \E coefficients \in Coefficients(params.fieldSize, params.degree, params.fieldSize) :
       \E size \in 0 .. Min(params.degree, params.nShares) :
       \E I \in Positions(params.nShares, size) :
          /\ secrets' = << secret >>
          /\ args' = Pick(ShareFiniteField(secret, params.fieldSize, params.degree,
                                           params.nShares, coefficients), I, 1)
    /\ pc' = "observed"
    /\ UNCHANGED << params, sharings, results, work, out >>

NextSecrecy == ObserveShares

SpecSecrecy == InitSecrecy /\ [][NextSecrecy]_vars

\* the number of coefficient vectors of [0, p)^degree with which the sharing
\* of `secret` shows the shares `view` at their positions
ViewCount(secret, view) ==
    Cardinality({coefficients \in
                    Coefficients(params.fieldSize, params.degree, params.fieldSize) :
        LET shares == ShareFiniteField(secret, params.fieldSize, params.degree,
                                       params.nShares, coefficients)
        IN  \A k \in 1 .. Len(view) : shares[view[k].X] = view[k]})

\* C5 as stated: for p prime, the shares at any d or fewer positions are
\* produced by the same number of coefficient vectors whatever the secret.
SecrecyAnyPrime ==
    pc = "observed" =>
        \A other \in 0 .. (params.fieldSize - 1) :
            ViewCount(other, args) = ViewCount(secrets[1], args)

\* C5 amended: the same for a prime p > n, for which no position of 1..n is
\* 0 modulo p.
ThresholdSecrecy ==
    (pc = "observed" /\ params.fieldSize > params.nShares) =>
        \A other \in 0 .. (params.fieldSize - 1) :
            ViewCount(other, args) = ViewCount(secrets[1], args)

\* exactly `degree` >= 2 shares of a sharing over a field with p > n are seen
ThresholdSecrecyWitness ==
    /\ pc = "observed"
    /\ params.fieldSize > params.nShares
    /\ params.degree >= 2
    /\ Len(args) = params.degree
    /\ ViewCount(secrets[1], args) = 1

----------------------------------------------------------------------------
(* Several secrets: share each, add or multiply share-wise, reconstruct *)

\* the parameters shared by all sharings of a run; ShareIntegers is handed
\* the largest bound and security parameter
HomParams ==
    FieldParams \cup
    {q \in IntegerParams : q.secretUpperBound = MaxSecret /\ q.statSecParam = MaxStatSec}

InitHom ==
    /\ pc = "start"
    /\ params \in HomParams
    /\ secrets = << >>
    /\ sharings = << >>
    /\ results = << >>
    /\ work = << >>
    /\ args = << >>
    /\ out = NoResult

\* a third or later secret is shared only while the product of all of them
\* stays reconstructable from the nShares shares (k*t+1 shares, README.md)
MayShareAnother ==
    /\ pc \in {"start", "sharing"}
    /\ Len(sharings) < MaxFactors
    /\ Len(sharings) >= 2 => (Len(sharings) + 1) * params.degree < params.nShares

ShareNextFiniteField ==
    /\ MayShareAnother
    /\ params.domain = "field"
    /\ \E secret \in Secrets :
       \E coefficients \in Coefficients(params.fieldSize, params.degree, MaxHomCoef) :
          /\ secrets' = Append(secrets, secret)
          /\ sharings' = Append(sharings,
                 ShareFiniteField(secret, params.fieldSize, params.degree,
                                  params.nShares, coefficients))
    /\ pc' = "sharing"
    /\ UNCHANGED << params, results, work, args, out >>

ShareNextIntegers ==
    /\ MayShareAnother
    /\ params.domain = "integers"
    /\ LET bound == coefficientUpperBound(params.secretUpperBound,
                                          params.statSecParam, params.nShares)
       IN  \E secret \in Secrets :
           \E coefficients \in Coefficients(bound, params.degree, MaxHomCoef) :
              /\ secrets' = Append(secrets, secret)
              /\ sharings' = Append(sharings,
                     ShareIntegers(secret, params.secretUpperBound, params.statSecParam,
                                   params.degree, params.nShares, coefficients))
    /\ pc' = "sharing"
    /\ UNCHANGED << params, results, work, args, out >>

\* the shares of participant i, one per secret
SharesOf(i) == [k \in 1 .. Len(sharings) |-> sharings[k][i]]

\* for i := range shares1 { shares1[i], err = ShareAdd(...) } of the tests
PointwiseAdd ==
    /\ pc = "sharing"
    /\ Len(sharings) >= 2
    /\ results' = [i \in 1 .. params.nShares |-> ShareAdd(SharesOf(i))]
    /\ work' = [i \in 1 .. params.nShares |-> results'[i].share]
    /\ pc' = "added"
    /\ UNCHANGED << params, secrets, sharings, args, out >>

\* for i := range shares1 { shares1[i], err = ShareMul(...) } of the tests
PointwiseMul ==
    /\ pc = "sharing"
    /\ Len(sharings) >= 2
    /\ results' = [i \in 1 .. params.nShares |-> ShareMul(SharesOf(i))]
    /\ work' = [i \in 1 .. params.nShares |-> results'[i].share]
    /\ pc' = "multiplied"
    /\ UNCHANGED << params, secrets, sharings, args, out >>

\* ShareCombine on Degree+1 of the sums or products (on all of them when
\* there are fewer)
CombineDerived ==
    /\ pc \in {"added", "multiplied"}
    /\ \E I \in Positions(Len(work), Min(Len(work), work[1].Degree + 1)) :
          /\ args' = Pick(work, I, 1)
          /\ out' = ShareCombine(args')
    /\ pc' = (IF pc = "added" THEN "sum" ELSE "product")
    /\ UNCHANGED << params, secrets, sharings, results, work >>

NextHom ==
    \/ ShareNextFiniteField
    \/ ShareNextIntegers
    \/ PointwiseAdd
    \/ PointwiseMul
    \/ CombineDerived

SpecHom == InitHom /\ [][NextHom]_vars

RECURSIVE SumOf(_)
SumOf(s) == IF s = << >> THEN 0 ELSE s[1] + SumOf(Tail(s))

RECURSIVE ProductOf(_)
ProductOf(s) == IF s = << >> THEN 1 ELSE s[1] * ProductOf(Tail(s))

\* what reconstruction owes the caller for the value v
Expected(v) ==
    IF params.domain = "field" THEN Secret(EMod(v, params.fieldSize)) ELSE Secret(v)

\* same degree, same n > d, and in the finite-field domain the same prime p > n
HomPrecondition ==
    /\ params.nShares > params.degree
    /\ params.domain = "field" => params.fieldSize > params.nShares

\* C3: every ShareAdd([A_i, B_i]) succeeds, and ShareCombine on any d+1 of
\* the sums returns (a + b) mod p (finite field) or exactly a + b (integers).
AdditiveHomomorphism ==
    (pc \in {"added", "sum"} /\ HomPrecondition) =>
        /\ \A i \in 1 .. params.nShares : results[i].err = "nil"
        /\ (pc = "sum" /\ Len(args) = params.degree + 1)
              => out = Expected(SumOf(secrets))

\* sums of shares with a non-zero coefficient, not the first d+1, gave a
\* negative sum in the integer domain
AdditiveHomomorphismWitness ==
    /\ pc = "sum"
    /\ HomPrecondition
    /\ params.domain = "integers"
    /\ params.degree >= 1
    /\ Len(args) = params.degree + 1
    /\ args[1].X > 1
    /\ args[1].Y # args[2].Y
    /\ secrets = << -1, -1 >>
    /\ out = Secret(-2)

\* C4: every product share of k >= 2 sharings with n >= k*d + 1 has Degree
\* k*d and, in the integer domain, Factor (n!)^k, and ShareCombine on any
\* k*d+1 of the products returns the product of the secrets ((mod p) in the
\* finite field), also for negative secrets.
MultiplicativeHomomorphism ==
    LET k == Len(secrets)
    IN  (/\ pc \in {"multiplied", "product"}
         /\ HomPrecondition
         /\ params.nShares >= k * params.degree + 1) =>
            /\ \A i \in 1 .. params.nShares :
                  /\ results[i].err = "nil"
                  /\ results[i].share.Degree = k * params.degree
                  /\ params.domain = "integers" =>
                        results[i].share.Factor = Some(Pow(factorial(params.nShares), k))
            /\ (pc = "product" /\ Len(args) = k * params.degree + 1)
                  => out = Expected(ProductOf(secrets))

\* products of shares of degree 1 gave a negative product in the finite field
MultiplicativeHomomorphismWitness ==
    /\ pc = "product"
    /\ HomPrecondition
    /\ params.domain = "field"
    /\ params.degree = 1
    /\ Len(args) = 3
    /\ args[1].Y # args[2].Y
    /\ secrets = << -1, 1 >>
    /\ out = Secret(params.fieldSize - 1)

----------------------------------------------------------------------------
(* The three functions on arbitrary lists of populated shares *)

\* field sizes of the lists: a prime and a composite
ArgFieldSizes == {Some(3), Some(4)}

ArgDegrees == {1, 2}

\* (X, Y) pairs: X = 0, a repeated X, and values whose interpolation is
\* fractional
ArgPoints == {<< 0, 1 >>, << 1, 1 >>, << 1, 2 >>, << 3, 2 >>}

\* finite-field shares carry a modulus and a Y, integer shares a non-zero
\* Factor and a Y
ArgShares ==
    {Share(f, Nil, d, xy[1], Some(xy[2])) : f \in ArgFieldSizes, d \in ArgDegrees, xy \in ArgPoints}
    \cup {Share(Nil, Some(2), d, xy[1], Some(xy[2])) : d \in ArgDegrees, xy \in ArgPoints}

ArgLists == UNION {[1 .. n -> ArgShares] : n \in 0 .. MaxArgs}

InitCalls ==
    /\ pc = "start"
    /\ params = [domain |-> "none"]
    /\ secrets = << >>
    /\ sharings = << >>
    /\ results = << >>
    /\ work = << >>
    /\ args \in ArgLists
    /\ out = NoResult

CombineArgs ==
    /\ pc = "start"
    /\ out' = ShareCombine(args)
    /\ pc' = "ShareCombine"
    /\ UNCHANGED << params, secrets, sharings, results, work, args >>

AddArgs ==
    /\ pc = "start"
    /\ results' = << ShareAdd(args) >>
    /\ pc' = "ShareAdd"
    /\ UNCHANGED << params, secrets, sharings, work, args, out >>

MulArgs ==
    /\ pc = "start"
    /\ results' = << ShareMul(args) >>
    /\ pc' = "ShareMul"
    /\ UNCHANGED << params, secrets, sharings, work, args, out >>

NextCalls ==
    \/ CombineArgs
    \/ AddArgs
    \/ MulArgs

SpecCalls == InitCalls /\ [][NextCalls]_vars

\* one share has a field size and the other has none
DomainsDiffer(a, b) == (a.FieldSize = Nil) # (b.FieldSize = Nil)

\* both have a field size, and not the same
FieldSizesDiffer(a, b) ==
    a.FieldSize # Nil /\ b.FieldSize # Nil /\ Val(a.FieldSize) # Val(b.FieldSize)

\* some two shares of the list satisfy D
SomeTwo(list, D(_, _)) ==
    \E i \in 1 .. Len(list) : \E j \in 1 .. Len(list) : D(list[i], list[j])

OperandsDiffer(a, b) ==
    \/ DomainsDiffer(a, b)
    \/ FieldSizesDiffer(a, b)
    \/ a.Degree # b.Degree
    \/ a.X # b.X

\* C7: ShareAdd and ShareMul fail with ErrorNoShares on the empty list, with
\* ErrorIncompatibleShares and the empty Share when some two shares differ in
\* domain, field size, Degree or X, and succeed otherwise.
OperandValidation ==
    pc \in {"ShareAdd", "ShareMul"} =>
        /\ args = << >> => results[1] = Fail(ErrorNoShares)
        /\ (args # << >> /\ SomeTwo(args, OperandsDiffer))
              => results[1] = Fail(ErrorIncompatibleShares)
        /\ (args # << >> /\ ~SomeTwo(args, OperandsDiffer))
              => results[1].err = "nil"

\* ShareMul refused a list whose last two shares differ only in X
OperandValidationWitness ==
    /\ pc = "ShareMul"
    /\ Len(args) = MaxArgs
    /\ \A i \in 1 .. (MaxArgs - 1) : args[i] = args[1]
    /\ args[MaxArgs] = [args[1] EXCEPT !.X = 3]
    /\ results[1] = Fail(ErrorIncompatibleShares)

CombineOperandsDiffer(a, b) == DomainsDiffer(a, b) \/ a.Degree # b.Degree

\* C8 as stated: ShareCombine fails with ErrorIncompatibleShares on every
\* non-empty list in which some two shares differ in domain or in Degree,
\* whatever the length of the list.
MismatchAnyLength ==
    (pc = "ShareCombine" /\ args # << >> /\ SomeTwo(args, CombineOperandsDiffer))
        => out = Failure(ErrorIncompatibleShares)

\* C8 amended: it does so when the list is longer than the Degree of its
\* first share, wherever the mismatching share is; a shorter list fails with
\* ErrorTooFewShares.
MismatchDetection ==
    (pc = "ShareCombine" /\ args # << >> /\ SomeTwo(args, CombineOperandsDiffer))
        => out = Failure(IF Len(args) > args[1].Degree
                         THEN ErrorIncompatibleShares ELSE ErrorTooFewShares)

\* the only mismatching share lies past the Degree+1 shares that are used
MismatchDetectionWitness ==
    /\ pc = "ShareCombine"
    /\ Len(args) = 3
    /\ args[1].Degree = 1
    /\ ~CombineOperandsDiffer(args[1], args[2])
    /\ DomainsDiffer(args[1], args[3])
    /\ args[3].Degree = 1
    /\ out = Failure(ErrorIncompatibleShares)

\* C10: on populated shares ShareCombine returns either a secret or exactly
\* one of the four errors, and never aborts.
CombineExplicitResult ==
    pc = "ShareCombine" =>
        \/ (out.err = "nil" /\ out.val # Nil)
        \/ (out.err \in Errors /\ out.val = Nil)

=============================================================================
